---- MODULE Spec2Model ----
(***************************************************************************)
(* A model of lib/simple_config.py (SimpleConfig): the command-line map,   *)
(* the user (persisted) map, the config file on disk, the construction     *)
(* with its schema migration, and the public operations on the maps.       *)
(***************************************************************************)
EXTENDS Integers, Sequences, FiniteSets, TLC

VARIABLES
    options,          \* the options dict handed to SimpleConfig(options)
    cmdline_options,  \* self.cmdline_options
    user_config,      \* self.user_config
    file,             \* <path>/config on disk: [kind, data]
    disk,             \* how a write of <path>/config ends: "ok", "gone", "enoent", "eio"
    phase,            \* "new", "ready" (constructed), "failed" (__init__ raised)
    loaded,           \* what read_user_config_function returned at the last construction
    lastOp,           \* the last call: its arguments, result, exception, warnings, file writes
    prevOp,           \* the call before it
    nops,             \* number of calls made on the constructed instance
    fee_estimates,    \* self.fee_estimates: (target, fee) pairs in insertion order
    global_config,    \* the module's global `config`: None or the registered instance
    ninstances,       \* number of SimpleConfig constructions the process has started
    threads,          \* each thread's running call: position, arguments, locals
    lock,             \* the thread that holds self.lock, or "none"
    heap,             \* the list objects the threads and the user map refer to
    held,             \* the list object stored under user_config['recently_open'], or 0
    access            \* the last access to a map or to the file, and who held the lock

vars == <<options, cmdline_options, user_config, file, disk, phase, loaded,
          lastOp, prevOp, nops, fee_estimates, global_config, ninstances, threads,
          lock, heap, held, access>>

(***************************************************************************)
(* Bounds of the model.                                                    *)
(***************************************************************************)
MaxOps == 2       \* calls made on one constructed instance
MaxVersion == 3   \* largest config_version found in a config file
MaxLen == 5       \* longest server string found in a config file
MaxInstances == 3 \* SimpleConfig constructions in one process

(***************************************************************************)
(* Python values: None, int, str (a sequence of characters), bool and      *)
(* list, each tagged with its type.                                        *)
(***************************************************************************)
None == [t |-> "None"]
PyInt(i) == [t |-> "int", v |-> i]
PyStr(s) == [t |-> "str", v |-> s]
PyBool(b) == [t |-> "bool", v |-> b]
PyList(l) == [t |-> "list", v |-> l]

FINAL_CONFIG_VERSION == 2

(***************************************************************************)
(* Python dict operations on a map (a function from a set of keys).        *)
(***************************************************************************)
EmptyDict == [k \in {} |-> None]
DictGet(d, key, default) == IF key \in DOMAIN d THEN d[key] ELSE default
DictSet(d, key, value) == [k \in DOMAIN d \cup {key} |-> IF k = key THEN value ELSE d[k]]
DictPop(d, key) == [k \in DOMAIN d \ {key} |-> d[k]]

(***************************************************************************)
(* The instance as the methods see it: the two maps, the file, and what    *)
(* the running call has raised, warned and written so far.                 *)
(***************************************************************************)
Self(cmd, usr, f) ==
    [cmdline_options |-> cmd, user_config |-> usr, file |-> f,
     raised |-> "none", warned |-> {}, writes |-> <<>>]

(***************************************************************************)
(* json.dumps / json.loads on the values above: the file holds JSON.       *)
(***************************************************************************)
json_dumps_value(v) ==
    CASE v.t = "None" -> [t |-> "null"]
      [] v.t = "int"  -> [t |-> "number", v |-> v.v]
      [] v.t = "str"  -> [t |-> "string", v |-> v.v]
      [] v.t = "bool" -> [t |-> IF v.v THEN "true" ELSE "false"]
      [] v.t = "list" -> [t |-> "array", v |-> v.v]

json_loads_value(j) ==
    CASE j.t = "null"   -> None
      [] j.t = "number" -> PyInt(j.v)
      [] j.t = "string" -> PyStr(j.v)
      [] j.t = "true"   -> PyBool(TRUE)
      [] j.t = "false"  -> PyBool(FALSE)
      [] j.t = "array"  -> PyList(j.v)

json_dumps(d) == [k \in DOMAIN d |-> json_dumps_value(d[k])]
json_loads(o) == [k \in DOMAIN o |-> json_loads_value(o[k])]

NoFile == [kind |-> "absent", data |-> EmptyDict]
JsonFile(d) == [kind |-> "object", data |-> json_dumps(d)]

\* read_user_config: a missing file, or one that is not a JSON object, reads as {}
read_user_config(f) ==
    IF f.kind = "object" THEN json_loads(f.data) ELSE EmptyDict

(***************************************************************************)
(* get, is_modifiable, save_user_config, set_key.                          *)
(***************************************************************************)
\* get with the precedence of the two maps swapped
get_user_first(self, key, default) ==
    LET out == DictGet(self.user_config, key, None)
    IN  IF out = None THEN DictGet(self.cmdline_options, key, default) ELSE out

get(self, key, default) ==
    LET out == DictGet(self.cmdline_options, key, None)
    IN  IF out = None THEN DictGet(self.user_config, key, default) ELSE out

\* is_modifiable that lets every key through
is_modifiable_always(self, key) == TRUE

is_modifiable(self, key) == key \notin DOMAIN self.cmdline_options

\* save_user_config that swallows every FileNotFoundError
save_user_config_swallow(self, d) ==
    CASE d = "ok"     -> [self EXCEPT !.file = JsonFile(self.user_config),
                                      !.writes = Append(@, self.user_config)]
      [] d = "gone"   -> self
      [] d = "enoent" -> self
      [] d = "eio"    -> [self EXCEPT !.raised = "OSError"]

\* d is the state of the config directory when the file is opened for writing
save_user_config(self, d) ==
    CASE d = "ok"     -> [self EXCEPT !.file = JsonFile(self.user_config),
                                      !.writes = Append(@, self.user_config)]
      [] d = "gone"   -> self
      [] d = "enoent" -> [self EXCEPT !.raised = "FileNotFoundError"]
      [] d = "eio"    -> [self EXCEPT !.raised = "OSError"]

\* _set_key_in_user_config that does not delete the key on None
_set_key_no_delete(self, key, value, save, d) ==
    LET s1 == IF value # None
              THEN [self EXCEPT !.user_config = DictSet(@, key, value)]
              ELSE self
    IN  IF save THEN save_user_config(s1, d) ELSE s1

_set_key_in_user_config(self, key, value, save, d) ==
    LET s1 == IF value # None
              THEN [self EXCEPT !.user_config = DictSet(@, key, value)]
              ELSE [self EXCEPT !.user_config = DictPop(@, key)]
    IN  IF save THEN save_user_config(s1, d) ELSE s1

set_key(self, key, value, save, d) ==
    IF ~is_modifiable(self, key)
    THEN [self EXCEPT !.warned = @ \cup {"not_modifiable"}]
    ELSE _set_key_in_user_config(self, key, value, save, d)

(***************************************************************************)
(* rename_config_keys for the one pair {old_key: new_key} the code uses.   *)
(***************************************************************************)
\* rename_config_keys that overwrites the new key with the old key's value
rename_overwriting(config, old_key, new_key) ==
    IF old_key \in DOMAIN config
    THEN DictPop(DictSet(config, new_key, config[old_key]), old_key)
    ELSE config

rename_config_keys(config, old_key, new_key) ==
    IF old_key \in DOMAIN config
    THEN DictPop(IF new_key \notin DOMAIN config
                 THEN DictSet(config, new_key, config[old_key])
                 ELSE config,
                 old_key)
    ELSE config

(***************************************************************************)
(* str.rsplit(':', 2), int() and the server rewrite of convert_version_2.  *)
(***************************************************************************)
Digits == {"0", "1", "2", "3", "4", "5", "6", "7", "8", "9"}

\* str(x): a str is itself; None prints as 'None'
py_str(x) == IF x.t = "str" THEN x.v ELSE <<"N", "o", "n", "e">>

Colons(s) == {i \in 1..Len(s) : s[i] = ":"}
MaxOf(S) == CHOOSE i \in S : \A j \in S : j <= i

\* the list s.rsplit(':', 2) returns: split at the last two ':' (or at fewer)
rsplit2(s) ==
    LET cs == Colons(s)
    IN  IF cs = {} THEN <<s>>
        ELSE LET j == MaxOf(cs)
                 rest == cs \ {j}
             IN  IF rest = {}
                 THEN <<SubSeq(s, 1, j - 1), SubSeq(s, j + 1, Len(s))>>
                 ELSE LET i == MaxOf(rest)
                      IN  <<SubSeq(s, 1, i - 1), SubSeq(s, i + 1, j - 1),
                            SubSeq(s, j + 1, Len(s))>>

\* int(port) does not throw
int_ok(port) == Len(port) > 0 /\ \A i \in 1..Len(port) : port[i] \in Digits

\* convert_server that appends :s to the string it found
convert_server_append(server_str) ==
    LET parts == rsplit2(py_str(server_str))
    IN  IF Len(parts) # 3 THEN None
        ELSE IF parts[3] \notin {<<"s">>, <<"t">>} THEN None
        ELSE IF ~int_ok(parts[2]) THEN None
        ELSE PyStr(parts[1] \o <<":">> \o parts[2] \o <<":">> \o parts[3] \o <<":", "s">>)

\* convert_server that keeps the protocol it found
convert_server_keep_protocol(server_str) ==
    LET parts == rsplit2(py_str(server_str))
    IN  IF Len(parts) # 3 THEN None
        ELSE IF parts[3] \notin {<<"s">>, <<"t">>} THEN None
        ELSE IF ~int_ok(parts[2]) THEN None
        ELSE PyStr(parts[1] \o <<":">> \o parts[2] \o <<":">> \o parts[3])

\* lines 156-160: the new server string, or None when the try block throws
convert_server(server_str) ==
    LET parts == rsplit2(py_str(server_str))
    IN  IF Len(parts) # 3 THEN None
        ELSE IF parts[3] \notin {<<"s">>, <<"t">>} THEN None
        ELSE IF ~int_ok(parts[2]) THEN None
        ELSE PyStr(parts[1] \o <<":">> \o parts[2] \o <<":", "s">>)

(***************************************************************************)
(* The schema version and the migration.                                   *)
(***************************************************************************)
get_config_version(self) == get(self, "config_version", PyInt(1)).v

\* the warning get_config_version prints
version_warning(self) ==
    IF get_config_version(self) > FINAL_CONFIG_VERSION
    THEN [self EXCEPT !.warned = @ \cup {"version_higher"}]
    ELSE self

\* requires_upgrade comparing against the first version instead of the final one
requires_upgrade_below_first(self) == get_config_version(self) < 1

\* requires_upgrade with <= for <
requires_upgrade_le(self) == get_config_version(self) <= FINAL_CONFIG_VERSION

\* requires_upgrade with # for <
requires_upgrade_ne(self) == get_config_version(self) # FINAL_CONFIG_VERSION

requires_upgrade(self) == get_config_version(self) < FINAL_CONFIG_VERSION

\* _is_upgrade_method_needed that lets a version below the window through
_is_upgrade_method_needed_no_raise(self, min_version, max_version) ==
    IF get_config_version(self) > max_version THEN "skip" ELSE "needed"

\* "needed", "skip" or "raise"
_is_upgrade_method_needed(self, min_version, max_version) ==
    LET cur_version == get_config_version(self)
    IN  IF cur_version > max_version THEN "skip"
        ELSE IF cur_version < min_version THEN "raise"
        ELSE "needed"

convert_version_2(self, d) ==
    LET needed == _is_upgrade_method_needed(self, 1, 1)
    IN  IF needed = "skip" THEN self
        ELSE IF needed = "raise" THEN [self EXCEPT !.raised = "Exception"]
        ELSE
          LET s1 == [self EXCEPT !.user_config =
                        rename_config_keys(@, "auto_cycle", "auto_connect")]
              server_str == convert_server(DictGet(s1.user_config, "server", None))
              \* the try block: a failing save is caught like a failing parse
              tried == IF server_str # None
                       THEN _set_key_in_user_config(s1, "server", server_str, TRUE, d)
                       ELSE [s1 EXCEPT !.raised = "ValueError"]
              s2 == IF tried.raised # "none"
                    THEN _set_key_in_user_config([tried EXCEPT !.raised = "none"],
                                                 "server", None, TRUE, d)
                    ELSE tried
          IN  IF s2.raised # "none" THEN s2
              ELSE set_key(s2, "config_version", PyInt(2), TRUE, d)

upgrade(self, d) ==
    LET s1 == convert_version_2(self, d)
    IN  IF s1.raised # "none" THEN s1
        ELSE set_key(s1, "config_version", PyInt(FINAL_CONFIG_VERSION), TRUE, d)

(***************************************************************************)
(* SimpleConfig.__init__ (lines 62-81) on the options and the file read.   *)
(***************************************************************************)
init(opts, f, d) ==
    LET cmd0 == DictPop(opts, "config_version")
        rd == read_user_config(f)
        usr == IF rd = EmptyDict
               THEN [k \in {"config_version"} |-> PyInt(FINAL_CONFIG_VERSION)]
               ELSE rd
        cmd1 == rename_config_keys(cmd0, "auto_cycle", "auto_connect")
        s0 == version_warning(Self(cmd1, usr, f))
    IN  IF requires_upgrade(s0) THEN upgrade(s0, d) ELSE s0

(***************************************************************************)
(* The other public operations.                                            *)
(***************************************************************************)
\* list.remove(x): the list without the first occurrence of x
ListRemove(l, x) ==
    LET i == CHOOSE i \in 1..Len(l) : l[i] = x /\ \A j \in 1..(i - 1) : l[j] # x
    IN  SubSeq(l, 1, i - 1) \o SubSeq(l, i + 1, Len(l))

ListHas(l, x) == \E i \in 1..Len(l) : l[i] = x

\* get returns the list object itself, so recent.remove changes it where it is
\* held: in cmdline_options or in user_config
remove_from_recently_open(self, filename, d) ==
    LET recent == get(self, "recently_open", PyList(<<>>))
        removed == PyList(ListRemove(recent.v, filename))
        in_cmdline == DictGet(self.cmdline_options, "recently_open", None) # None
        s1 == IF in_cmdline
              THEN [self EXCEPT !.cmdline_options = DictSet(@, "recently_open", removed)]
              ELSE [self EXCEPT !.user_config = DictSet(@, "recently_open", removed)]
    IN  IF ListHas(recent.v, filename)
        THEN set_key(s1, "recently_open", removed, TRUE, d)
        ELSE self

set_session_timeout(self, seconds, d) ==
    set_key(self, "session_timeout", seconds, TRUE, d)

get_session_timeout(self) == get(self, "session_timeout", PyInt(300))

\* exists is os.path.exists(last_wallet)
open_last_wallet(self, exists) ==
    LET last_wallet == get(self, "gui_last_wallet", None)
    IN  IF get(self, "wallet_path", None) = None /\ last_wallet # None /\ exists
        THEN [self EXCEPT !.cmdline_options = DictSet(@, "default_wallet_path", last_wallet)]
        ELSE self

\* path is wallet.storage.path
save_last_wallet(self, path, d) ==
    IF get(self, "wallet_path", None) = None
    THEN set_key(self, "gui_last_wallet", path, TRUE, d)
    ELSE self

(***************************************************************************)
(* The record of a call, kept in lastOp.                                   *)
(***************************************************************************)
Call(op, key, value, default, save, ret, s) ==
    [op |-> op, key |-> key, value |-> value, default |-> default, save |-> save,
     ret |-> ret, raised |-> s.raised, warned |-> s.warned, writes |-> s.writes]

\* what is remembered of the call before the last: a set_key, or something else
Brief(c) ==
    IF c.op = "set_key"
    THEN [op |-> c.op, key |-> c.key, value |-> c.value]
    ELSE [op |-> "other", key |-> "", value |-> None]

NoCall == Call("none", "", None, None, FALSE, None, Self(EmptyDict, EmptyDict, NoFile))

\* a map without the keys whose choice is Absent
Absent == [t |-> "absent"]
Strip(r) == [k \in {x \in DOMAIN r : r[x] # Absent} |-> r[k]]

(***************************************************************************)
(* Inputs of the model.                                                    *)
(***************************************************************************)
W == PyStr(<<"w">>)
G == PyStr(<<"g">>)
P == PyStr(<<"p">>)
Recent == PyList(<<"a", "b", "a">>)
Timeout == PyInt(600)

GetKeys == {"wallet_path", "gui_last_wallet", "recently_open"}
SetKeys == {"wallet_path", "recently_open", "default_wallet_path"}
SetValues(key) ==
    CASE key = "wallet_path" -> {None, P}
      [] key = "default_wallet_path" -> {P}
      [] key = "recently_open" -> {None, PyList(<<"b">>)}
Defaults(key) == IF key = "recently_open" THEN {None, PyList(<<>>)} ELSE {None, W}
Filenames == {"a", "c"}

OpOptions ==
    {Strip(r) : r \in [wallet_path : {Absent, None, W},
                       recently_open : {Absent, Recent}]}

OpFiles ==
    {NoFile,
     JsonFile([config_version |-> PyInt(FINAL_CONFIG_VERSION), gui_last_wallet |-> G,
               recently_open |-> Recent]),
     JsonFile([config_version |-> PyInt(FINAL_CONFIG_VERSION), wallet_path |-> G]),
     JsonFile([recently_open |-> Recent])}

(***************************************************************************)
(* The state outside the two maps: the fee samples (empty after            *)
(* construction), the registered instance, and the threads that call the   *)
(* instance (one thread, holding nothing, unless a specification says      *)
(* otherwise).                                                             *)
(***************************************************************************)
Instance(n) == [t |-> "SimpleConfig", id |-> n]

Threads == {"t1", "t2"}

\* a thread outside any call; in a call: the position, the call's arguments,
\* get's result `out`, the list object `recent` (0: none), and what the call
\* has raised, warned and written so far
Idle ==
    [pc |-> "idle", op |-> "none", key |-> "", value |-> None, default |-> None,
     save |-> FALSE, filename |-> "", out |-> None, recent |-> 0,
     raised |-> "none", warned |-> {}, writes |-> <<>>]

NoAccess == [thread |-> "none", target |-> "none", kind |-> "none", locked |-> TRUE,
             owner |-> "none"]

SingleThread ==
    /\ threads = [t \in Threads |-> Idle]
    /\ lock = "none"
    /\ heap = <<>>
    /\ held = 0
    /\ access = NoAccess

NoProcess ==
    /\ fee_estimates = <<>>
    /\ global_config = None
    /\ ninstances = 0

Init ==
    /\ options \in OpOptions
    /\ file \in OpFiles
    /\ disk \in {"ok", "enoent", "eio"}
    /\ cmdline_options = EmptyDict
    /\ user_config = EmptyDict
    /\ phase = "new"
    /\ loaded = EmptyDict
    /\ lastOp = NoCall
    /\ prevOp = Brief(NoCall)
    /\ nops = 0
    /\ NoProcess
    /\ SingleThread

(***************************************************************************)
(* Actions.                                                                *)
(***************************************************************************)
\* the instance the variables hold, at the start of a call
Current == Self(cmdline_options, user_config, file)

\* the variables after a call that left the instance as s
Finish(s, call) ==
    /\ cmdline_options' = s.cmdline_options
    /\ user_config' = s.user_config
    /\ file' = s.file
    /\ lastOp' = call
    /\ prevOp' = Brief(lastOp)
    /\ UNCHANGED <<fee_estimates, threads, lock, heap, held, access>>

\* set_config(c): the module's global after the call
set_config(c) == c

\* a constructor that registers the instance before it migrates the map
registered_first(s, c, old) == set_config(c)

\* get_config(): the module's global
get_config == global_config

\* the module's global after SimpleConfig.__init__ on the instance c ended as
\* s: set_config(self) is the constructor's last statement
registered(s, c, old) == IF s.raised = "none" THEN set_config(c) ELSE old

\* SimpleConfig(options) in a process just started: electrum_path makes the
\* directory if it is missing
RunInit ==
    LET d == IF disk = "gone" THEN "ok" ELSE disk
        s == init(options, file, d)
    IN  /\ Finish(s, Call("init", "", None, None, FALSE, None, s))
        /\ global_config' = registered(s, Instance(1), None)
        /\ ninstances' = 1
        /\ disk' = d
        /\ phase' = IF s.raised = "none" THEN "ready" ELSE "failed"
        /\ loaded' = read_user_config(file)
        /\ nops' = 0
        /\ UNCHANGED options

Construct == phase = "new" /\ RunInit

\* the process is started again on the file as the last run left it
Reconstruct == phase # "new" /\ RunInit

Ready == phase = "ready" /\ nops < MaxOps

Step == nops' = nops + 1 /\ UNCHANGED <<options, disk, phase, loaded, global_config,
                                     ninstances>>

SetKey(key, value, save) ==
    /\ Ready
    /\ LET s == set_key(Current, key, value, save, disk)
       IN  Finish(s, Call("set_key", key, value, None, save, None, s))
    /\ Step

Get(key, default) ==
    /\ Ready
    /\ Finish(Current, Call("get", key, None, default, FALSE,
                            get(Current, key, default), Current))
    /\ Step

RemoveFromRecentlyOpen(filename) ==
    /\ Ready
    /\ LET s == remove_from_recently_open(Current, filename, disk)
       IN  Finish(s, Call("remove_from_recently_open", "recently_open",
                          PyStr(<<filename>>), None, TRUE, None, s))
    /\ Step

SetSessionTimeout(seconds) ==
    /\ Ready
    /\ LET s == set_session_timeout(Current, seconds, disk)
       IN  Finish(s, Call("set_session_timeout", "session_timeout", seconds,
                          None, TRUE, None, s))
    /\ Step

GetSessionTimeout ==
    /\ Ready
    /\ Finish(Current, Call("get_session_timeout", "session_timeout", None, PyInt(300),
                            FALSE, get_session_timeout(Current), Current))
    /\ Step

OpenLastWallet(exists) ==
    /\ Ready
    /\ LET s == open_last_wallet(Current, exists)
       IN  Finish(s, Call("open_last_wallet", "default_wallet_path", None, None,
                          FALSE, None, s))
    /\ Step

SaveLastWallet(path) ==
    /\ Ready
    /\ LET s == save_last_wallet(Current, path, disk)
       IN  Finish(s, Call("save_last_wallet", "gui_last_wallet", path, None, TRUE,
                          None, s))
    /\ Step

\* the data directory is deleted while the program runs
DirDeleted ==
    /\ phase = "ready"
    /\ disk = "ok"
    /\ disk' = "gone"
    /\ file' = NoFile
    /\ UNCHANGED <<options, cmdline_options, user_config, phase, loaded, lastOp,
                   prevOp, nops, fee_estimates, global_config, ninstances, threads,
                   lock, heap, held, access>>

Next ==
    \/ Construct
    \/ \E key \in SetKeys : \E value \in SetValues(key) : \E save \in BOOLEAN :
          SetKey(key, value, save)
    \/ \E key \in GetKeys : \E default \in Defaults(key) : Get(key, default)
    \/ \E filename \in Filenames : RemoveFromRecentlyOpen(filename)
    \/ SetSessionTimeout(Timeout)
    \/ GetSessionTimeout
    \/ \E exists \in BOOLEAN : OpenLastWallet(exists)
    \/ SaveLastWallet(P)
    \/ DirDeleted

Spec == Init /\ [][Next]_vars

(***************************************************************************)
(* The migration on its own: construction, and construction again on the   *)
(* file as it was left, over a wider range of config files.                *)
(***************************************************************************)
Chars == {"h", "1", ":", "s", "t"}
Strings == UNION {[1..n -> Chars] : n \in 0..MaxLen}
Versions == {PyInt(i) : i \in (-1)..MaxVersion}
Bools == {PyBool(TRUE), PyBool(FALSE)}
Legacy == PyStr(<<"h", ":", "1", ":", "t">>)

\* every server string, in files at schema version 1
ServerFiles ==
    {JsonFile(Strip(r)) : r \in [config_version : {Absent, PyInt(1)},
                                 server : {PyStr(str) : str \in Strings},
                                 auto_cycle : {Absent, PyBool(TRUE)}]}

\* every version, with the renamed keys and a few server values
VersionFiles ==
    {JsonFile(Strip(r)) : r \in [config_version : {Absent} \cup Versions,
                                 auto_cycle : {Absent} \cup Bools,
                                 auto_connect : {Absent} \cup Bools,
                                 server : {Absent, None, Legacy, PyStr(<<"h">>)},
                                 recently_open : {Absent, Recent}]}

\* no file, and a file that is not a JSON object
OtherFiles == {NoFile, [kind |-> "other", data |-> EmptyDict]}

MigOptions ==
    {Strip(r) : r \in [auto_cycle : {Absent, None} \cup Bools,
                       auto_connect : {Absent} \cup Bools,
                       config_version : {Absent, PyInt(1)}]}

InitMig ==
    /\ \/ /\ file \in ServerFiles
          /\ options = EmptyDict
          /\ disk = "ok"
       \/ /\ file \in VersionFiles \cup OtherFiles
          /\ options \in MigOptions
          /\ disk \in {"ok", "enoent", "eio"}
       \/ /\ file = NoFile
          /\ options \in MigOptions
          /\ disk = "gone"
    /\ cmdline_options = EmptyDict
    /\ user_config = EmptyDict
    /\ phase = "new"
    /\ loaded = EmptyDict
    /\ lastOp = NoCall
    /\ prevOp = Brief(NoCall)
    /\ nops = 0
    /\ NoProcess
    /\ SingleThread

NextMig == Construct \/ Reconstruct

SpecMig == InitMig /\ [][NextMig]_vars

(***************************************************************************)
(* Properties of get and set_key (specification Spec).                     *)
(***************************************************************************)
\* a step of Spec that is a set_key call
IsSetKeyStep == nops' = nops + 1 /\ lastOp'.op = "set_key"

\* C1 as stated: for every key present in cmdline, whatever value cmdline holds
\* for it, get(key, default) returns cmdline[key].
C1_Original ==
    (lastOp.op = "get" /\ lastOp.key \in DOMAIN cmdline_options)
        => lastOp.ret = cmdline_options[lastOp.key]

\* C1 amended: for every key present in cmdline, get(key, default) returns
\* cmdline[key] when that value is not None, whatever persisted holds; when
\* cmdline holds None for the key, get returns persisted[key] if the key is in
\* persisted and default otherwise.
C1_GetCmdline ==
    (lastOp.op = "get" /\ lastOp.key \in DOMAIN cmdline_options)
        => lastOp.ret =
              IF cmdline_options[lastOp.key] # None
              THEN cmdline_options[lastOp.key]
              ELSE IF lastOp.key \in DOMAIN user_config
                   THEN user_config[lastOp.key]
                   ELSE lastOp.default

\* get on a key cmdline holds a value for, with another value in persisted and
\* another default
C1_Witness ==
    /\ lastOp.op = "get"
    /\ lastOp.key \in DOMAIN cmdline_options
    /\ lastOp.key \in DOMAIN user_config
    /\ cmdline_options[lastOp.key] # None
    /\ user_config[lastOp.key] # cmdline_options[lastOp.key]
    /\ lastOp.default # None
    /\ lastOp.ret = cmdline_options[lastOp.key]

\* C2: set_key(key, value, save) on a key present in cmdline leaves persisted
\* unchanged and writes nothing to the config file, for every value (None too)
\* and either save flag, after any earlier operations.
C2_SetKeyCmdlineNoop ==
    [][(IsSetKeyStep /\ lastOp'.key \in DOMAIN cmdline_options)
          => /\ user_config' = user_config
             /\ file' = file
             /\ lastOp'.writes = <<>>
             /\ cmdline_options' = cmdline_options]_vars

\* a saving set_key of a new value on a key of cmdline, made after
\* open_last_wallet put the key there: persisted holds no such value
C2_Witness ==
    /\ lastOp.op = "set_key"
    /\ lastOp.key \in DOMAIN cmdline_options
    /\ lastOp.key \notin DOMAIN options
    /\ lastOp.save
    /\ lastOp.value # None
    /\ lastOp.key \notin DOMAIN user_config
    /\ "not_modifiable" \in lastOp.warned
    /\ disk = "ok"

\* C3: for a key absent from cmdline, set_key(key, v) with v not None followed
\* at once by get(key) returns v, and set_key(key, None) followed at once by
\* get(key, default) returns default.
C3_SetThenGet ==
    (/\ lastOp.op = "get"
     /\ prevOp.op = "set_key"
     /\ prevOp.key = lastOp.key
     /\ lastOp.key \notin DOMAIN cmdline_options)
        => lastOp.ret = IF prevOp.value # None THEN prevOp.value ELSE lastOp.default

\* set_key(key, None) on a key persisted held, then get with a default
C3_Witness ==
    /\ lastOp.op = "get"
    /\ prevOp.op = "set_key"
    /\ prevOp.key = lastOp.key
    /\ lastOp.key \notin DOMAIN cmdline_options
    /\ lastOp.key \in DOMAIN loaded
    /\ prevOp.value = None
    /\ lastOp.default # None
    /\ lastOp.ret = lastOp.default

\* C10 as stated: once construction has returned, no public operation adds,
\* removes or changes a key or a value of cmdline.
C10_CmdlineImmutable ==
    [][phase = "ready" => cmdline_options' = cmdline_options]_vars

(***************************************************************************)
(* Properties of the construction and the migration (specification         *)
(* SpecMig).                                                               *)
(***************************************************************************)
\* the state right after a construction
Constructed == lastOp.op = "init"

\* the schema version of the map the reader returned: an empty map counts as
\* final, a map without config_version as version 1
LoadedVersion ==
    IF loaded = EmptyDict THEN FINAL_CONFIG_VERSION
    ELSE IF "config_version" \in DOMAIN loaded THEN loaded["config_version"].v
    ELSE 1

\* the construction wrote nothing: no write was made and the file reads as before
NothingWritten == lastOp.writes = <<>> /\ read_user_config(file) = loaded

\* m and n hold the same value, or both none, under every key outside keys
SameOutside(m, n, keys) ==
    \A k \in (DOMAIN m \cup DOMAIN n) \ keys :
        k \in DOMAIN m /\ k \in DOMAIN n /\ m[k] = n[k]

\* C4 as stated: whenever construction returns without raising, whatever map the
\* reader returned, persisted['config_version'] = FINAL_VERSION.
C4_Original ==
    (Constructed /\ phase = "ready")
        => DictGet(user_config, "config_version", None) = PyInt(FINAL_CONFIG_VERSION)

\* C4 amended: whenever construction returns without raising and the map the
\* reader returned is empty, has no config_version, or has a config_version of
\* at most FINAL_VERSION, persisted['config_version'] = FINAL_VERSION; a loaded
\* config_version above FINAL_VERSION is kept as it is.
C4_FinalVersion ==
    (Constructed /\ phase = "ready")
        => DictGet(user_config, "config_version", None) =
              IF LoadedVersion <= FINAL_CONFIG_VERSION
              THEN PyInt(FINAL_CONFIG_VERSION)
              ELSE loaded["config_version"]

\* a construction that returned on a map without config_version
C4_Witness ==
    /\ Constructed
    /\ phase = "ready"
    /\ loaded # EmptyDict
    /\ "config_version" \notin DOMAIN loaded
    /\ user_config["config_version"] = PyInt(FINAL_CONFIG_VERSION)

\* C5: when the loaded map is not empty and its config_version is below 1,
\* construction raises; the migration changes no key of persisted and writes
\* nothing to the config file before failing.
C5_VersionGapRaises ==
    (Constructed /\ loaded # EmptyDict /\ LoadedVersion < 1)
        => /\ phase = "failed"
           /\ lastOp.raised = "Exception"
           /\ user_config = loaded
           /\ NothingWritten

\* a failed construction on a version-0 map that holds auto_cycle and a legacy
\* server, both left as they were
C5_Witness ==
    /\ Constructed
    /\ phase = "failed"
    /\ disk = "ok"
    /\ DictGet(loaded, "config_version", None) = PyInt(0)
    /\ "auto_cycle" \in DOMAIN user_config
    /\ DictGet(user_config, "server", None) = Legacy

\* the places <<i, j>> of the last two ':' of a server value that splits there
\* into a host, an integer port and a protocol s or t (none: it does not)
ServerSplits(old) ==
    IF old.t # "str" THEN {}
    ELSE {p \in (1..Len(old.v)) \X (1..Len(old.v)) :
            /\ p[1] < p[2]
            /\ old.v[p[1]] = ":"
            /\ old.v[p[2]] = ":"
            /\ \A k \in (p[1] + 1)..Len(old.v) : old.v[k] = ":" => k = p[2]
            /\ p[2] > p[1] + 1
            /\ \A k \in (p[1] + 1)..(p[2] - 1) : old.v[k] \in Digits
            /\ Len(old.v) = p[2] + 1
            /\ old.v[p[2] + 1] \in {"s", "t"}}

\* C6: for a loaded map at schema version 1 (config_version 1, or missing from a
\* map that is not empty), after the migration config_version = 2; server is
\* host:port:s when the old server splits at its last two ':' into a host, an
\* integer port and a protocol s or t, and is absent otherwise; no key other
\* than these and auto_cycle/auto_connect is changed.
C6_ConvertVersion2 ==
    (Constructed /\ phase = "ready" /\ loaded # EmptyDict /\ LoadedVersion = 1)
        => /\ DictGet(user_config, "config_version", None) = PyInt(2)
           /\ LET old == DictGet(loaded, "server", None)
              IN  IF ServerSplits(old) = {}
                  THEN "server" \notin DOMAIN user_config
                  ELSE /\ "server" \in DOMAIN user_config
                       /\ \A p \in ServerSplits(old) :
                             user_config["server"] =
                                PyStr(SubSeq(old.v, 1, p[2]) \o <<"s">>)
           /\ SameOutside(loaded, user_config,
                          {"config_version", "server", "auto_cycle", "auto_connect"})

\* the migration of {config_version: 1, server: "h:1:t", recently_open: [...]}
C6_Witness ==
    /\ Constructed
    /\ phase = "ready"
    /\ DictGet(loaded, "config_version", None) = PyInt(1)
    /\ DictGet(loaded, "server", None) = Legacy
    /\ DictGet(user_config, "server", None) = PyStr(<<"h", ":", "1", ":", "s">>)
    /\ "recently_open" \in DOMAIN user_config

\* after is before with auto_cycle renamed to auto_connect: unchanged without
\* auto_cycle; else auto_cycle is gone and auto_connect keeps its value if it
\* had one and takes auto_cycle's if not
Renamed(before, after) ==
    IF "auto_cycle" \notin DOMAIN before
    THEN SameOutside(before, after, {})
    ELSE /\ "auto_cycle" \notin DOMAIN after
         /\ "auto_connect" \in DOMAIN after
         /\ after["auto_connect"] = IF "auto_connect" \in DOMAIN before
                                    THEN before["auto_connect"]
                                    ELSE before["auto_cycle"]
         /\ SameOutside(before, after, {"auto_cycle", "auto_connect"})

\* C7: the rename auto_cycle -> auto_connect, applied to cmdline at every
\* construction and to persisted when migrating from version 1, leaves the map
\* unchanged when auto_cycle is absent; otherwise auto_cycle is removed and
\* auto_connect keeps its value if present, else takes auto_cycle's. Applying
\* the rename again to the result changes nothing.
C7_Rename ==
    Constructed
        => /\ Renamed(DictPop(options, "config_version"), cmdline_options)
           /\ rename_config_keys(cmdline_options, "auto_cycle", "auto_connect")
                 = cmdline_options
           /\ (phase = "ready" /\ loaded # EmptyDict /\ LoadedVersion = 1)
                 => /\ Renamed([k \in DOMAIN loaded \ {"config_version", "server"}
                                  |-> loaded[k]],
                               [k \in DOMAIN user_config \ {"config_version", "server"}
                                  |-> user_config[k]])
                    /\ rename_config_keys(user_config, "auto_cycle", "auto_connect")
                          = user_config

\* both maps held auto_cycle and a different auto_connect, and both kept
\* their auto_connect
C7_Witness ==
    /\ Constructed
    /\ phase = "ready"
    /\ LoadedVersion = 1
    /\ DictGet(options, "auto_cycle", None) = PyBool(TRUE)
    /\ DictGet(options, "auto_connect", None) = PyBool(FALSE)
    /\ cmdline_options = [k \in {"auto_connect"} |-> PyBool(FALSE)]
    /\ DictGet(loaded, "auto_cycle", None) = PyBool(FALSE)
    /\ DictGet(loaded, "auto_connect", None) = PyBool(TRUE)
    /\ DictGet(user_config, "auto_connect", None) = PyBool(TRUE)
    /\ "auto_cycle" \notin DOMAIN user_config

\* C8: construction on a loaded map already at FINAL_VERSION, or empty, runs no
\* migration step and writes nothing: a map at FINAL_VERSION is kept key for
\* key, an empty map becomes {config_version: FINAL_VERSION}, and constructing
\* again on what was left gives the same persisted map, again without a write.
C8_NoMigrationAtFinal ==
    (Constructed /\ LoadedVersion = FINAL_CONFIG_VERSION)
        => /\ phase = "ready"
           /\ lastOp.raised = "none"
           /\ NothingWritten
           /\ user_config = IF loaded = EmptyDict
                            THEN [k \in {"config_version"} |-> PyInt(FINAL_CONFIG_VERSION)]
                            ELSE loaded
           /\ init(options, file, disk).user_config = user_config
           /\ init(options, file, disk).writes = <<>>

\* a map at FINAL_VERSION holding auto_cycle and a legacy server, kept as it is
\* although the directory admits no write
C8_Witness ==
    /\ Constructed
    /\ phase = "ready"
    /\ disk = "eio"
    /\ DictGet(loaded, "config_version", None) = PyInt(FINAL_CONFIG_VERSION)
    /\ "auto_cycle" \in DOMAIN user_config
    /\ DictGet(user_config, "server", None) = Legacy
    /\ user_config = loaded

\* C9: when the loaded config_version is above FINAL_VERSION, construction
\* completes without error, runs no migration step, leaves persisted (its
\* config_version too) and the config file unchanged, and only warns.
C9_HigherVersionWarns ==
    (Constructed /\ LoadedVersion > FINAL_CONFIG_VERSION)
        => /\ phase = "ready"
           /\ lastOp.raised = "none"
           /\ "version_higher" \in lastOp.warned
           /\ user_config = loaded
           /\ NothingWritten

\* a version-3 map holding auto_cycle and a legacy server, kept as it is
C9_Witness ==
    /\ Constructed
    /\ phase = "ready"
    /\ DictGet(user_config, "config_version", None) = PyInt(FINAL_CONFIG_VERSION + 1)
    /\ "auto_cycle" \in DOMAIN user_config
    /\ DictGet(user_config, "server", None) = Legacy
    /\ "version_higher" \in lastOp.warned

(***************************************************************************)
(* Threads.  The calls of several threads on one constructed instance,     *)
(* one step per statement; `with self.lock` is an acquire step and a       *)
(* release step around the statements of its block, and a call completes   *)
(* at its last statement.  recently_open is not on the command line here,  *)
(* so the only list object a map holds is user_config['recently_open'].    *)
(***************************************************************************)
Access(t, target, kind) ==
    [thread |-> t, target |-> target, kind |-> kind, locked |-> (lock = t),
     owner |-> lock]

\* the value a thread's call passes to set_key: the list object as it is now
ValueNow(r) == IF r.recent # 0 THEN PyList(heap[r.recent]) ELSE r.value

\* what is remembered of the call that returned before the last
Before(c) == [op |-> c.op, key |-> c.key, value |-> c.value]

\* the call of thread t returns (or raises): it is the last completed call
Return(t, r) ==
    /\ threads' = [threads EXCEPT ![t] = Idle]
    /\ lastOp' = Call(r.op, r.key,
                      IF r.op = "remove_from_recently_open" THEN PyStr(<<r.filename>>)
                      ELSE r.value,
                      r.default, r.save, r.out, r)
    /\ prevOp' = Before(lastOp)

Goto(t, r) ==
    /\ threads' = [threads EXCEPT ![t] = r]
    /\ UNCHANGED <<lastOp, prevOp>>

Fixed == UNCHANGED <<options, cmdline_options, disk, phase, loaded, fee_estimates,
                     global_config, ninstances>>

CanStart(t) == phase = "ready" /\ nops < MaxOps /\ threads[t].pc = "idle"

\* thread t calls set_key(key, value, save); a list value is a new list object
StartSetKey(t, key, value, save) ==
    /\ CanStart(t)
    /\ heap' = IF value.t = "list" THEN Append(heap, value.v) ELSE heap
    /\ Goto(t, [Idle EXCEPT !.pc = "set_key", !.op = "set_key", !.key = key,
                            !.value = value, !.save = save,
                            !.recent = IF value.t = "list" THEN Len(heap) + 1 ELSE 0])
    /\ nops' = nops + 1
    /\ UNCHANGED <<user_config, file, lock, held, access>>
    /\ Fixed

\* set_key, lines 116-119: is_modifiable reads cmdline_options, outside the lock
IsModifiable(t) ==
    LET r == threads[t]
    IN  /\ r.pc = "set_key"
        /\ access' = Access(t, "cmdline", "read")
        /\ IF is_modifiable(Current, r.key)
           THEN Goto(t, [r EXCEPT !.pc = "acquire_set"])
           ELSE Return(t, [r EXCEPT !.warned = @ \cup {"not_modifiable"}])
        /\ UNCHANGED <<user_config, file, lock, heap, held, nops>>
        /\ Fixed

\* a lock that never makes a thread wait
AcquireNoWait(t) ==
    LET r == threads[t]
    IN  /\ r.pc \in {"acquire_set", "acquire_get"}
        /\ lock' = t
        /\ threads' = [threads EXCEPT ![t].pc = IF r.pc = "acquire_set" THEN "assign"
                                                ELSE "read"]
        /\ UNCHANGED <<options, cmdline_options, user_config, file, disk, phase,
                       loaded, lastOp, prevOp, nops, fee_estimates, global_config,
                       ninstances, heap, held, access>>

\* with self.lock: (lines 122 and 131) waits until no other thread holds it
Acquire(t) ==
    LET r == threads[t]
    IN  /\ r.pc \in {"acquire_set", "acquire_get"}
        /\ lock \in {"none", t}
        /\ lock' = t
        /\ Goto(t, [r EXCEPT !.pc = IF r.pc = "acquire_set" THEN "assign" ELSE "read"])
        /\ UNCHANGED <<user_config, file, heap, held, nops, access>>
        /\ Fixed

\* _set_key_in_user_config, lines 123-126
Assign(t) ==
    LET r == threads[t]
        s == _set_key_in_user_config(Current, r.key, ValueNow(r), FALSE, disk)
    IN  /\ r.pc = "assign"
        /\ user_config' = s.user_config
        /\ held' = IF r.key = "recently_open" THEN r.recent ELSE held
        /\ access' = Access(t, "persisted", "write")
        /\ Goto(t, [r EXCEPT !.pc = IF r.save THEN "save" ELSE "release_set"])
        /\ UNCHANGED <<file, lock, heap, nops>>
        /\ Fixed

\* _set_key_in_user_config, lines 127-128: an exception leaves the block
Save(t) ==
    LET r == threads[t]
        s == save_user_config(Current, disk)
    IN  /\ r.pc = "save"
        /\ file' = s.file
        /\ access' = Access(t, "file", "write")
        /\ Goto(t, [r EXCEPT !.pc = "release_set", !.raised = s.raised,
                             !.writes = @ \o s.writes])
        /\ UNCHANGED <<user_config, lock, heap, held, nops>>
        /\ Fixed

\* the end of _set_key_in_user_config's block: the lock is released, and
\* set_key (and remove_from_recently_open around it) returns
ReleaseSet(t) ==
    LET r == threads[t]
    IN  /\ r.pc = "release_set"
        /\ lock' = "none"
        /\ Return(t, r)
        /\ UNCHANGED <<user_config, file, heap, held, nops, access>>
        /\ Fixed
\* thread t calls get(key, default)
StartGet(t, key, default) ==
    /\ CanStart(t)
    /\ Goto(t, [Idle EXCEPT !.pc = "acquire_get", !.op = "get", !.key = key,
                            !.default = default])
    /\ nops' = nops + 1
    /\ UNCHANGED <<user_config, file, lock, heap, held, access>>
    /\ Fixed

\* thread t calls remove_from_recently_open(filename), which starts with
\* recent = self.get('recently_open', []) (line 229)
StartRemoveFromRecentlyOpen(t, filename) ==
    /\ CanStart(t)
    /\ Goto(t, [Idle EXCEPT !.pc = "acquire_get", !.op = "remove_from_recently_open",
                            !.key = "recently_open", !.default = PyList(<<>>),
                            !.filename = filename, !.save = TRUE])
    /\ nops' = nops + 1
    /\ UNCHANGED <<user_config, file, lock, heap, held, access>>
    /\ Fixed

\* get, lines 132-134; for remove_from_recently_open the result is the list
\* object the user map holds, or the new empty list given as default
Read(t) ==
    LET r == threads[t]
        out == get(Current, r.key, r.default)
        stored == r.key = "recently_open" /\ r.key \in DOMAIN user_config /\ held # 0
        listed == r.op = "remove_from_recently_open"
    IN  /\ r.pc = "read"
        /\ access' = Access(t, "persisted", "read")
        /\ heap' = IF listed /\ ~stored THEN Append(heap, out.v) ELSE heap
        /\ Goto(t, [r EXCEPT !.pc = "release_get", !.out = out,
                             !.recent = IF ~listed THEN 0
                                        ELSE IF stored THEN held ELSE Len(heap) + 1])
        /\ UNCHANGED <<user_config, file, lock, held, nops>>
        /\ Fixed

\* the end of get's block and `return out` (line 135)
ReleaseGet(t) ==
    LET r == threads[t]
    IN  /\ r.pc = "release_get"
        /\ lock' = "none"
        /\ IF r.op = "get" THEN Return(t, r) ELSE Goto(t, [r EXCEPT !.pc = "test"])
        /\ UNCHANGED <<user_config, file, heap, held, nops, access>>
        /\ Fixed

\* the list object a thread reads or changes is part of the user map while
\* the map holds it
Target(r) == IF held = r.recent THEN "persisted" ELSE "local"

\* remove_from_recently_open, line 230: if filename in recent
Test(t) ==
    LET r == threads[t]
    IN  /\ r.pc = "test"
        /\ access' = Access(t, Target(r), "read")
        /\ IF ListHas(heap[r.recent], r.filename)
           THEN Goto(t, [r EXCEPT !.pc = "remove"])
           ELSE Return(t, r)
        /\ UNCHANGED <<user_config, file, lock, heap, held, nops>>
        /\ Fixed

\* remove_from_recently_open, line 231: recent.remove(filename) changes the
\* list object in place; line 232 then calls set_key('recently_open', recent)
Remove(t) ==
    LET r == threads[t]
        removed == ListRemove(heap[r.recent], r.filename)
    IN  /\ r.pc = "remove"
        /\ ListHas(heap[r.recent], r.filename)
        /\ access' = Access(t, Target(r), "write")
        /\ heap' = [heap EXCEPT ![r.recent] = removed]
        /\ user_config' = IF held = r.recent
                          THEN DictSet(user_config, "recently_open", PyList(removed))
                          ELSE user_config
        /\ Goto(t, [r EXCEPT !.pc = "set_key"])
        /\ UNCHANGED <<file, lock, held, nops>>
        /\ Fixed

(***************************************************************************)
(* The instance constructed and shared by the threads.                     *)
(***************************************************************************)
ThreadOptions == {EmptyDict, [wallet_path |-> W]}

ThreadFiles ==
    {NoFile,
     JsonFile([config_version |-> PyInt(FINAL_CONFIG_VERSION), recently_open |-> Recent])}

InitThreads ==
    /\ options \in ThreadOptions
    /\ disk \in {"ok", "eio"}
    /\ \E f \in ThreadFiles :
          LET s == init(options, f, disk)
              listed == "recently_open" \in DOMAIN s.user_config
          IN  /\ cmdline_options = s.cmdline_options
              /\ user_config = s.user_config
              /\ file = s.file
              /\ loaded = read_user_config(f)
              /\ lastOp = Call("init", "", None, None, FALSE, None, s)
              /\ heap = IF listed THEN <<s.user_config["recently_open"].v>> ELSE <<>>
              /\ held = IF listed THEN 1 ELSE 0
    /\ phase = "ready"
    /\ prevOp = Brief(NoCall)
    /\ nops = 0
    /\ fee_estimates = <<>>
    /\ global_config = Instance(1)
    /\ ninstances = 1
    /\ threads = [t \in Threads |-> Idle]
    /\ lock = "none"
    /\ access = NoAccess

\* set_key calls from the threads
NextSave ==
    \/ \E t \in Threads : \E key \in SetKeys : \E value \in SetValues(key) :
          \E save \in BOOLEAN : StartSetKey(t, key, value, save)
    \/ \E t \in Threads : IsModifiable(t)
    \/ \E t \in Threads : Acquire(t)
    \/ \E t \in Threads : Assign(t)
    \/ \E t \in Threads : Save(t)
    \/ \E t \in Threads : ReleaseSet(t)
    \/ DirDeleted

SpecSave == InitThreads /\ [][NextSave]_vars

Quiet == \A t \in Threads : threads[t].pc = "idle"

SavingSetKey == lastOp.op = "set_key" /\ lastOp.save /\ "not_modifiable" \notin lastOp.warned

\* C12: when the write in save_user_config fails with FileNotFoundError and
\* the config directory no longer exists, nothing is raised and set_key
\* returns normally; when the directory still exists the FileNotFoundError
\* is raised; any other failure of the write is raised.
C12_WriteFailure ==
    SavingSetKey =>
       /\ disk = "gone" => lastOp.raised = "none"
       /\ disk = "enoent" => lastOp.raised = "FileNotFoundError" /\ lastOp.writes = <<>>
       /\ disk = "eio" => lastOp.raised = "OSError" /\ lastOp.writes = <<>>

\* the directory was deleted, then a set_key changed the map and its save
\* wrote nothing and raised nothing
C12_Witness ==
    /\ SavingSetKey
    /\ disk = "gone"
    /\ lastOp.writes = <<>>
    /\ lastOp.raised = "none"
    /\ lastOp.value # None
    /\ DictGet(user_config, lastOp.key, None) = lastOp.value
    /\ file = NoFile
(***************************************************************************)
(* The registered instance.  One process constructs SimpleConfig several   *)
(* times and calls set_config and get_config; the config file may be       *)
(* replaced between two constructions.  The maps of the model are those of *)
(* the instance constructed last.                                          *)
(***************************************************************************)
\* SimpleConfig(options) once more in the running process
ConstructAgain ==
    LET s == init(options, file, disk)
    IN  /\ phase # "new"
        /\ ninstances < MaxInstances
        /\ Finish(s, Call("init", "", None, None, FALSE, None, s))
        /\ global_config' = registered(s, Instance(ninstances + 1), global_config)
        /\ ninstances' = ninstances + 1
        /\ phase' = IF s.raised = "none" THEN "ready" ELSE "failed"
        /\ loaded' = read_user_config(file)
        /\ nops' = 0
        /\ UNCHANGED <<options, disk>>

\* the references the program holds: None, the instance just constructed,
\* and the registered one
Held == {None, global_config} \cup (IF phase = "ready" THEN {Instance(ninstances)} ELSE {})

SetConfig(c) ==
    /\ global_config' = set_config(c)
    /\ lastOp' = Call("set_config", "", c, None, FALSE, None, Current)
    /\ prevOp' = Brief(lastOp)
    /\ UNCHANGED <<options, cmdline_options, user_config, file, disk, phase, loaded,
                   nops, fee_estimates, ninstances, threads, lock, heap, held, access>>

GetConfig ==
    /\ lastOp' = Call("get_config", "", None, None, FALSE, get_config, Current)
    /\ prevOp' = Brief(lastOp)
    /\ UNCHANGED <<options, cmdline_options, user_config, file, disk, phase, loaded,
                   nops, fee_estimates, global_config, ninstances, threads, lock,
                   heap, held, access>>

RegFiles ==
    {NoFile,
     JsonFile([config_version |-> PyInt(FINAL_CONFIG_VERSION), wallet_path |-> G]),
     JsonFile([config_version |-> PyInt(0), wallet_path |-> G]),
     JsonFile([auto_cycle |-> PyBool(TRUE)])}

\* the config file is replaced from outside the program
FileReplaced(f) ==
    /\ file # f
    /\ file' = f
    /\ UNCHANGED <<options, cmdline_options, user_config, disk, phase, loaded, lastOp,
                   prevOp, nops, fee_estimates, global_config, ninstances, threads,
                   lock, heap, held, access>>

InitReg ==
    /\ options = EmptyDict
    /\ file \in RegFiles
    /\ disk \in {"ok", "eio"}
    /\ cmdline_options = EmptyDict
    /\ user_config = EmptyDict
    /\ phase = "new"
    /\ loaded = EmptyDict
    /\ lastOp = NoCall
    /\ prevOp = Brief(NoCall)
    /\ nops = 0
    /\ NoProcess
    /\ SingleThread

NextReg ==
    \/ Construct
    \/ ConstructAgain
    \/ \E c \in Held : SetConfig(c)
    \/ GetConfig
    \/ \E f \in RegFiles : FileReplaced(f)

SpecReg == InitReg /\ [][NextReg]_vars

\* C13: get_config() returns None before any construction or set_config;
\* a construction that succeeds registers its instance, one that raises
\* leaves the registered instance in place, set_config(c) registers c, and
\* nothing else changes what get_config() returns.
C13_LastWriterWins ==
    /\ [](ninstances = 0 /\ lastOp.op = "none" => get_config = None)
    /\ [](lastOp.op = "get_config" => lastOp.ret = global_config)
    /\ [][IF ninstances' # ninstances
          THEN global_config' = IF phase' = "ready" THEN Instance(ninstances')
                                ELSE global_config
          ELSE IF lastOp'.op = "set_config" /\ lastOp' # lastOp
          THEN global_config' = lastOp'.value
          ELSE global_config' = global_config]_vars

\* the second construction raised and get_config() still returns the first
C13_Witness ==
    /\ phase = "failed"
    /\ ninstances = 2
    /\ lastOp.op = "get_config"
    /\ lastOp.ret = Instance(1)
    /\ global_config = Instance(1)
(***************************************************************************)
(* Fee rates.  A rate is an int or a float in the code; the model counts   *)
(* it in hundredths, which is exact for fee/2, fee + fee/2, x * 0.4 and    *)
(* x * 0.06.  fee_estimates is the dict as the sequence of its (target,    *)
(* fee) items in insertion order, with integer fees.  FEE_TARGETS and      *)
(* MAX_FEE_RATE are imported from lib/bitcoin.py; MAX_FEE_RATE is taken    *)
(* in a unit that keeps the rates of the model small.                      *)
(***************************************************************************)
Hundredths == 100
MaxRate == 7      \* largest fee_per_kb and value the fee methods are called with

FEE_TARGETS == <<25, 10, 5, 2>>
MAX_FEE_RATE == 1

Number(c) == [t |-> "number", c |-> c]
Whole(n) == Number(Hundredths * n)

Result(v) == [raised |-> "none", ret |-> v]
Raise(e) == [raised |-> e, ret |-> None]

Min(a, b) == IF b < a THEN b ELSE a
Max(a, b) == IF b > a THEN b ELSE a
Abs(a) == IF a < 0 THEN 0 - a ELSE a
\* int(n / d) for d > 0: the quotient rounded towards zero
Trunc(n, d) == IF n >= 0 THEN n \div d ELSE 0 - ((0 - n) \div d)

\* l[i] on a Python list: a negative index counts from the end
Index(l, i) ==
    IF 0 <= i /\ i < Len(l) THEN Result(l[i + 1])
    ELSE IF 0 - Len(l) <= i /\ i < 0 THEN Result(l[Len(l) + i + 1])
    ELSE Raise("IndexError")

Targets(fe) == {fe[k][1] : k \in 1..Len(fe)}

\* self.fee_estimates.get(j)
FeeGet(fe, j) ==
    IF j \in Targets(fe)
    THEN Whole(fe[CHOOSE k \in 1..Len(fe) : fe[k][1] = j][2])
    ELSE None

max_fee_rate(self) ==
    LET f == get(self, "max_fee_rate", PyInt(MAX_FEE_RATE))
    IN  IF f.v = 0 THEN MAX_FEE_RATE ELSE f.v

\* min(5*MAX_FEE_RATE, fee), fee not None
Clamp(ceiling, fee) == Number(Min(5 * Hundredths * ceiling, fee.c))

\* dynfee that clamps to five times the configured max_fee_rate
dynfee_configured_ceiling(self, fe, i) ==
    IF i < 4
    THEN LET j == Index(FEE_TARGETS, i)
             fee == FeeGet(fe, j.ret)
         IN  IF j.raised # "none" THEN j
             ELSE IF fee # None THEN Result(Clamp(max_fee_rate(self), fee))
             ELSE Result(None)
    ELSE IF i # 4 THEN Raise("AssertionError")
    ELSE LET fee == FeeGet(fe, 2)
         IN  IF fee # None
             THEN Result(Clamp(max_fee_rate(self), Number(fee.c + fee.c \div 2)))
             ELSE Result(None)

dynfee(self, fe, i) ==
    IF i < 4
    THEN LET j == Index(FEE_TARGETS, i)
             fee == FeeGet(fe, j.ret)
         IN  IF j.raised # "none" THEN j
             ELSE IF fee # None THEN Result(Clamp(MAX_FEE_RATE, fee))
             ELSE Result(None)
    ELSE IF i # 4 THEN Raise("AssertionError")
    ELSE LET fee == FeeGet(fe, 2)
         IN  IF fee # None
             THEN Result(Clamp(MAX_FEE_RATE, Number(fee.c + fee.c \div 2)))
             ELSE Result(None)

has_fee_estimates(fe) == Len(fe) = 4

\* the truth value of self.get('dynamic_fees', False) and has_fee_estimates()
is_dynfee(self, fe) ==
    /\ get(self, "dynamic_fees", PyBool(FALSE)) = PyBool(TRUE)
    /\ has_fee_estimates(fe)
\* list(self.fee_estimates.items())
Items(fe) == [k \in 1..Len(fe) |-> <<fe[k][1], Whole(fe[k][2])>>]

\* a min that keeps the last item of the smallest distance
RECURSIVE MinFromLast(_, _, _)
MinFromLast(dist, k, best) ==
    IF k > Len(dist) THEN best
    ELSE MinFromLast(dist, k + 1, IF dist[k][2] <= best[2] THEN dist[k] ELSE best)

\* min(dist, key=itemgetter(1)) over the items from position k on: the first
\* item of the smallest distance
RECURSIVE MinFrom(_, _, _)
MinFrom(dist, k, best) ==
    IF k > Len(dist) THEN best
    ELSE MinFrom(dist, k + 1, IF dist[k][2] < best[2] THEN dist[k] ELSE best)

\* reverse_dynfee(fee_per_kb) for an integer fee_per_kb; comparing or
\* subtracting None raises TypeError
reverse_dynfee(self, fe, fee_per_kb) ==
    LET rate == Whole(fee_per_kb)
        s25 == FeeGet(fe, 25)
        s5 == FeeGet(fe, 5)
        l == Items(fe) \o <<<<1, dynfee(self, fe, 4).ret>>>>
        dist == [k \in 1..Len(l) |-> <<l[k][1], Abs(l[k][2].c - rate.c)>>]
        shortcut == is_dynfee(self, fe) /\ s25 = s5
    IN  IF shortcut /\ s5 = None THEN Raise("TypeError")
        ELSE IF shortcut /\ rate.c >= s5.c THEN Result(PyInt(5))
        ELSE IF \E k \in 1..Len(l) : l[k][2] = None THEN Raise("TypeError")
        ELSE IF s25 = None THEN Raise("TypeError")
        ELSE IF rate.c < s25.c \div 2 THEN Result(PyInt(-1))
        ELSE Result(PyInt(MinFrom(dist, 2, dist[1])[1]))

static_fee(self, i) ==
    Number(max_fee_rate(self) * 40 + max_fee_rate(self) * 6 * i)

\* static_fee_index with the bounds the right way round
static_fee_index_clamped(self, value) ==
    LET m == max_fee_rate(self)
        index == IF m > 0 THEN Trunc((value.c - m * 40) * 6, m * Hundredths * Hundredths)
                 ELSE Trunc((m * 40 - value.c) * 6, (0 - m) * Hundredths * Hundredths)
    IN  PyInt(Min(10, Max(0, index)))

\* int((value - m * 0.4) / m * 0.06), then min(0, index), then max(10, index)
static_fee_index(self, value) ==
    LET m == max_fee_rate(self)
        index == IF m > 0 THEN Trunc((value.c - m * 40) * 6, m * Hundredths * Hundredths)
                 ELSE Trunc((m * 40 - value.c) * 6, (0 - m) * Hundredths * Hundredths)
    IN  PyInt(Max(10, Min(0, index)))
(***************************************************************************)
(* Calls of the fee methods on a constructed instance whose fee samples    *)
(* the network has filled in.                                              *)
(***************************************************************************)
FeeValues == {1, 2, 3, 6}
Orders == {<<25, 10, 5, 2>>, <<2, 5, 10, 25>>, <<10, 25, 2, 5>>, <<5, 2, 25, 10>>}

\* all four targets sampled, in several insertion orders
CompleteMaps ==
    {[k \in 1..4 |-> <<o[k], v[k]>>] : o \in Orders, v \in [1..4 -> FeeValues]}

\* the first n targets of a list sampled
PartialMaps(ts) ==
    {[k \in 1..n |-> <<ts[k], v[k]>>] : n \in 0..Len(ts), v \in [1..Len(ts) -> {2, 6}]}

\* four samples of which one is for a target that is not in FEE_TARGETS
OtherMaps ==
    {m \in PartialMaps(<<3, 25, 5, 2>>) \cup PartialMaps(<<10, 5, 2, 3>>)
           \cup PartialMaps(<<25, 10, 3, 5>>) : Len(m) = 4}

FeeConfigs ==
    {Strip(r) : r \in [config_version : {PyInt(FINAL_CONFIG_VERSION)},
                       dynamic_fees : {Absent, PyBool(TRUE)},
                       max_fee_rate : {Absent, PyInt(0), PyInt(3), PyInt(-2)}]}

Levels == (-6)..6

InitFee ==
    /\ \/ /\ fee_estimates \in CompleteMaps
          /\ user_config \in {c \in FeeConfigs : "max_fee_rate" \notin DOMAIN c}
       \/ /\ fee_estimates \in PartialMaps(FEE_TARGETS) \cup OtherMaps
          /\ user_config \in FeeConfigs
    /\ options = EmptyDict
    /\ cmdline_options = EmptyDict
    /\ file = JsonFile(user_config)
    /\ disk = "ok"
    /\ phase = "ready"
    /\ loaded = user_config
    /\ lastOp = Call("init", "", None, None, FALSE, None, Current)
    /\ prevOp = Brief(NoCall)
    /\ nops = 0
    /\ global_config = Instance(1)
    /\ ninstances = 1
    /\ SingleThread

\* a call that changes nothing and returns or raises as res says; the fee
\* methods write no state, so each is called on the instance as constructed
Pure(op, arg, res) ==
    /\ phase = "ready"
    /\ nops = 0
    /\ nops' = 1
    /\ lastOp' = [Call(op, "", arg, None, FALSE, res.ret, Current)
                    EXCEPT !.raised = res.raised]
    /\ prevOp' = Brief(lastOp)
    /\ UNCHANGED <<options, cmdline_options, user_config, file, disk, phase, loaded,
                   fee_estimates, global_config, ninstances, threads, lock, heap,
                   held, access>>

Dynfee(i) == Pure("dynfee", PyInt(i), dynfee(Current, fee_estimates, i))

ReverseDynfee(fee_per_kb) ==
    Pure("reverse_dynfee", PyInt(fee_per_kb),
         reverse_dynfee(Current, fee_estimates, fee_per_kb))

StaticFee(i) == Pure("static_fee", PyInt(i), Result(static_fee(Current, i)))

StaticFeeIndex(value) ==
    Pure("static_fee_index", value, Result(static_fee_index(Current, value)))

NextFee ==
    \/ \E i \in Levels : Dynfee(i)
    \/ \E fee_per_kb \in 0..MaxRate : ReverseDynfee(fee_per_kb)
    \/ \E i \in 0..10 : StaticFee(i)
    \/ \E i \in 0..10 : StaticFeeIndex(static_fee(Current, i))
    \/ \E value \in 0..MaxRate : StaticFeeIndex(Whole(value))

SpecFee == InitFee /\ [][NextFee]_vars
\* C14: dynfee(level) raises for every integer level outside 0..4, above 4
\* and below 0 alike, and returns neither a fee nor None for such a level.
C14_OutOfRangeRaises ==
    (lastOp.op = "dynfee" /\ lastOp.value.v \notin 0..4) => lastOp.raised # "none"

\* C15: for a level in 0..3 dynfee returns min(5 * MAX_FEE_RATE, sample) of
\* the level's target, or None when the target has no sample; dynfee(4)
\* returns min(5 * MAX_FEE_RATE, 1.5 * sample of target 2), or None; no
\* result exceeds 5 * MAX_FEE_RATE; the configured max_fee_rate plays no part.
C15_Dynfee ==
    lastOp.op = "dynfee" /\ lastOp.value.v \in 0..4 =>
        LET level == lastOp.value.v
            target == IF level = 4 THEN 2 ELSE FEE_TARGETS[level + 1]
            ceiling == 5 * MAX_FEE_RATE * Hundredths
            sample == CHOOSE k \in 1..Len(fee_estimates) : fee_estimates[k][1] = target
            fee == fee_estimates[sample][2] * Hundredths
            wanted == IF level = 4 THEN (3 * fee) \div 2 ELSE fee
        IN  /\ lastOp.raised = "none"
            /\ IF target \in Targets(fee_estimates)
               THEN /\ lastOp.ret = Number(IF wanted < ceiling THEN wanted ELSE ceiling)
                    /\ lastOp.ret.c <= ceiling
               ELSE lastOp.ret = None

\* dynfee(4) is clamped to 5 * MAX_FEE_RATE although the configured
\* max_fee_rate would allow more
C15_Witness ==
    /\ lastOp.op = "dynfee"
    /\ lastOp.value = PyInt(4)
    /\ DictGet(user_config, "max_fee_rate", None) = PyInt(3)
    /\ FeeGet(fee_estimates, 2) = Whole(6)
    /\ lastOp.ret = Whole(5 * MAX_FEE_RATE)
\* the last call was reverse_dynfee on a map of exactly four samples
ReverseOnComplete == lastOp.op = "reverse_dynfee" /\ Len(fee_estimates) = 4

\* the sample of a target, in hundredths
Sample(target) ==
    Hundredths * fee_estimates[CHOOSE k \in 1..4 : fee_estimates[k][1] = target][2]

\* the candidates: the samples in insertion order, then (1, dynfee(4))
Candidates ==
    [k \in 1..5 |->
        IF k <= 4 THEN <<fee_estimates[k][1], Hundredths * fee_estimates[k][2]>>
        ELSE <<1, Min(5 * MAX_FEE_RATE * Hundredths, (3 * Sample(2)) \div 2)>>]

Distance(k) == Abs(Candidates[k][2] - Hundredths * lastOp.value.v)

\* the earliest candidate among the nearest
Nearest == CHOOSE k \in 1..5 : /\ \A j \in 1..5 : Distance(k) <= Distance(j)
                               /\ \A j \in 1..(k - 1) : Distance(j) > Distance(k)

Shortcut ==
    /\ DictGet(user_config, "dynamic_fees", PyBool(FALSE)) = PyBool(TRUE)
    /\ Sample(25) = Sample(5)
    /\ Hundredths * lastOp.value.v >= Sample(5)

BelowHalf == 2 * Hundredths * lastOp.value.v < Sample(25)

Described ==
    /\ lastOp.raised = "none"
    /\ lastOp.ret = IF Shortcut THEN PyInt(5)
                    ELSE IF BelowHalf THEN PyInt(-1)
                    ELSE PyInt(Candidates[Nearest][1])

\* C16 as stated: whenever fee_estimates has exactly four entries,
\* reverse_dynfee returns without failing.
C16_Original == ReverseOnComplete => lastOp.raised = "none"

\* C16: whenever fee_estimates has exactly four entries and the targets 25,
\* 5 and 2 are among them, reverse_dynfee returns, without failing, 5 if
\* dynamic fees are enabled, sample[25] = sample[5] and the rate is at least
\* sample[5]; otherwise -1 if the rate is below sample[25]/2; otherwise the
\* target of the nearest candidate among the samples in insertion order
\* followed by (1, dynfee(4)), the earliest of the nearest on a tie.
C16_ReverseDynfee ==
    (ReverseOnComplete /\ {25, 5, 2} \subseteq Targets(fee_estimates)) => Described

\* two candidates are equally near and nearest, and the earlier one's target
\* is returned
C16_Witness ==
    /\ ReverseOnComplete
    /\ Targets(fee_estimates) = {25, 10, 5, 2}
    /\ ~Shortcut
    /\ ~BelowHalf
    /\ \E k \in 1..5 : /\ k # Nearest
                       /\ Distance(k) = Distance(Nearest)
                       /\ Candidates[k][1] # Candidates[Nearest][1]
    /\ lastOp.ret = PyInt(Candidates[Nearest][1])
\* C20: static_fee_index returns 10 for every rate and every max_fee_rate
\* setting, so static_fee_index(static_fee(i)) = i holds for i = 10 alone
\* among the levels 0..10.
C20_StaticFeeIndex ==
    /\ lastOp.op = "static_fee_index" => lastOp.raised = "none" /\ lastOp.ret = PyInt(10)
    /\ phase = "ready" =>
          \A i \in 0..10 :
             static_fee_index(Current, static_fee(Current, i)) = PyInt(i) <=> i = 10

\* static_fee_index was called on static_fee(0), with max_fee_rate configured,
\* and returned 10
C20_Witness ==
    /\ lastOp.op = "static_fee_index"
    /\ DictGet(user_config, "max_fee_rate", None) = PyInt(3)
    /\ lastOp.value = static_fee(Current, 0)
    /\ lastOp.ret = PyInt(10)
(***************************************************************************)
(* set_key, get and remove_from_recently_open called from the threads.     *)
(***************************************************************************)
NextThreads ==
    \/ \E t \in Threads : \E key \in SetKeys : \E value \in SetValues(key) :
          StartSetKey(t, key, value, TRUE)
    \/ \E t \in Threads : \E key \in GetKeys : StartGet(t, key, None)
    \/ \E t \in Threads : \E filename \in Filenames :
          StartRemoveFromRecentlyOpen(t, filename)
    \/ \E t \in Threads : IsModifiable(t)
    \/ \E t \in Threads : Acquire(t)
    \/ \E t \in Threads : Assign(t)
    \/ \E t \in Threads : Save(t)
    \/ \E t \in Threads : ReleaseSet(t)
    \/ \E t \in Threads : Read(t)
    \/ \E t \in Threads : ReleaseGet(t)
    \/ \E t \in Threads : Test(t)
    \/ \E t \in Threads : Remove(t)

SpecThreads == InitThreads /\ [][NextThreads]_vars

\* C17: every read and write of cmdline_options and user_config, and every
\* write of the config file, is made by a thread that holds self.lock, so
\* none is made while another thread is inside a locked block.
C17_AllUnderLock ==
    access.target \in {"cmdline", "persisted", "file"} => access.locked

\* the two calls of C19 have both returned, in either order
BothReturned(filename, L) ==
    /\ Quiet
    /\ nops = 2
    /\ \/ /\ lastOp.op = "remove_from_recently_open"
          /\ lastOp.value = PyStr(<<filename>>)
          /\ prevOp = [op |-> "set_key", key |-> "recently_open", value |-> L]
       \/ /\ lastOp.op = "set_key"
          /\ lastOp.key = "recently_open"
          /\ lastOp.value = L
          /\ prevOp = [op |-> "remove_from_recently_open", key |-> "recently_open",
                       value |-> PyStr(<<filename>>)]

Without(L, filename) ==
    IF ListHas(L.v, filename) THEN PyList(ListRemove(L.v, filename)) ELSE L

\* C19: once remove_from_recently_open(f) and a set_key('recently_open', L)
\* of another thread have both returned, user_config['recently_open'] is the
\* result of one of the two sequential orders: L, or L without f.
C19_RemoveAtomic ==
    \A filename \in Filenames : \A L \in SetValues("recently_open") \ {None} :
        BothReturned(filename, L) =>
            DictGet(user_config, "recently_open", None) \in {L, Without(L, filename)}
(***************************************************************************)
(* An interrupted migration.  The process stops after one of the writes    *)
(* its construction makes to the config file; the next process starts on   *)
(* the file as that write left it.                                         *)
(***************************************************************************)
\* the process stops right after the n-th write of SimpleConfig.__init__
Interrupted(n) ==
    LET s == init(options, file, disk)
    IN  /\ phase = "new"
        /\ n \in 1..Len(s.writes)
        /\ file' = JsonFile(s.writes[n])
        /\ lastOp' = [Call("init", "", None, None, FALSE, None, s)
                        EXCEPT !.raised = "killed", !.writes = SubSeq(s.writes, 1, n)]
        /\ loaded' = read_user_config(file)
        /\ UNCHANGED <<options, cmdline_options, user_config, disk, phase, prevOp,
                       nops, fee_estimates, global_config, ninstances, threads,
                       lock, heap, held, access>>

InitCrash ==
    /\ \/ /\ file \in {JsonFile([server |-> PyStr(str)]) : str \in Strings}
          /\ options = EmptyDict
       \/ /\ file \in VersionFiles \cup OtherFiles
          /\ options \in {EmptyDict, [config_version |-> PyInt(1)]}
    /\ disk = "ok"
    /\ cmdline_options = EmptyDict
    /\ user_config = EmptyDict
    /\ phase = "new"
    /\ loaded = EmptyDict
    /\ lastOp = NoCall
    /\ prevOp = Brief(NoCall)
    /\ nops = 0
    /\ NoProcess
    /\ SingleThread

NextCrash ==
    \/ Construct
    \/ \E n \in 1..3 : Interrupted(n)

SpecCrash == InitCrash /\ [][NextCrash]_vars

\* the config_version a config file holds; a file without one is at version 1
FileVersion(f) == DictGet(read_user_config(f), "config_version", PyInt(1)).v

\* C18: when the process stops after any one of the writes a migration makes
\* to the config file, a construction on the file as left completes without
\* error and ends with the user map an uninterrupted construction on the
\* file as it was before would have ended with; and the config_version in
\* the file never decreases.
C18_RerunSafe ==
    [][/\ lastOp'.raised = "killed" =>
            /\ init(options, file', disk).raised = "none"
            /\ init(options, file', disk).user_config = init(options, file, disk).user_config
       /\ FileVersion(file') >= FileVersion(file)]_vars

\* the migration of a version-1 file with a legacy server string was stopped
\* after its first write, which left the file without config_version 2, and
\* the construction that followed completed
C18_Witness ==
    /\ phase = "ready"
    /\ FileVersion(file) = FINAL_CONFIG_VERSION
    /\ DictGet(loaded, "server", None) = PyStr(<<"h", ":", "1", ":", "s">>)
    /\ DictGet(loaded, "config_version", PyInt(1)) = PyInt(1)
    /\ "auto_cycle" \notin DOMAIN loaded
    /\ "auto_connect" \in DOMAIN loaded
    /\ lastOp.op = "init"
    /\ lastOp.raised = "none"
    /\ user_config = read_user_config(file)
====
